---- MODULE Spec2Model ----
(***************************************************************************)
(* parse_lazyapply.py: a straight-line report generator over a parsed HTML *)
(* document.  Strings are sequences of one-character strings; the document *)
(* tree is the sequence of its nodes in document order, each node naming   *)
(* its parent (0 is the BeautifulSoup object itself).                      *)
(***************************************************************************)
EXTENDS Integers, Sequences, FiniteSets, TLC

\* ---------------------------------------------------------------- strings

\* Characters str.strip() removes.
Whitespace == {" ", "\n", "\t"}

UpperCase == <<"A", "B", "C", "D", "E", "F", "G", "H", "I", "J", "K", "L", "M", "N", "O", "P", "Q", "R", "S", "T", "U", "V", "W", "X", "Y", "Z">>
LowerCase == <<"a", "b", "c", "d", "e", "f", "g", "h", "i", "j", "k", "l", "m", "n", "o", "p", "q", "r", "s", "t", "u", "v", "w", "x", "y", "z">>

\* str.lower() on one character.
LowerChar(c) ==
  IF \E i \in 1..Len(UpperCase) : UpperCase[i] = c
  THEN LowerCase[CHOOSE i \in 1..Len(UpperCase) : UpperCase[i] = c]
  ELSE c

\* str.lower()
Lower(s) == [i \in 1..Len(s) |-> LowerChar(s[i])]

\* Python's  sub in s  on strings.
Contains(sub, s) ==
  \E i \in 0..(Len(s) - Len(sub)) : SubSeq(s, i + 1, i + Len(sub)) = sub

\* str.strip()
Strip(s) ==
  LET keep == {i \in 1..Len(s) : s[i] \notin Whitespace} IN
  IF keep = {} THEN <<>>
  ELSE SubSeq(s, CHOOSE i \in keep : \A j \in keep : i <= j,
                 CHOOSE i \in keep : \A j \in keep : j <= i)

\* sep.join(runs)
RECURSIVE Join(_, _)
Join(runs, sep) ==
  IF runs = <<>> THEN <<>>
  ELSE IF Len(runs) = 1 THEN runs[1]
  ELSE runs[1] \o sep \o Join(Tail(runs), sep)

\* str.split(): the whitespace-separated tokens of s.
RECURSIVE Split(_)
Split(s) ==
  LET t == Strip(s) IN
  IF t = <<>> THEN <<>>
  ELSE LET ws == {i \in 1..Len(t) : t[i] \in Whitespace} IN
       IF ws = {} THEN <<t>>
       ELSE LET k == CHOOSE i \in ws : \A j \in ws : i <= j IN
            <<SubSeq(t, 1, k - 1)>> \o Split(SubSeq(t, k + 1, Len(t)))

\* The text written by the f-string conversion of None.
NoneText == <<"N", "o", "n", "e">>

\* ---------------------------------------------------------------- the tree

\* An attribute is a sequence of at most one value: <<>> when the tag does
\* not carry it, <<v>> when it does (v may be the empty string).
NoAttr == <<>>
Attr(v) == <<v>>

Elem(tag, id, cls, href) ==
  [kind |-> "elem", tag |-> tag, id |-> id, cls |-> cls, href |-> href,
   text |-> <<>>, parent |-> 0]

\* A NavigableString.
Text(s) ==
  [kind |-> "text", tag |-> "", id |-> NoAttr, cls |-> NoAttr, href |-> NoAttr,
   text |-> s, parent |-> 0]

\* A Comment, which bs4 makes a subclass of NavigableString.
Comment(s) ==
  [kind |-> "comment", tag |-> "", id |-> NoAttr, cls |-> NoAttr, href |-> NoAttr,
   text |-> s, parent |-> 0]

\* Attach the top-level nodes of forest f to node `top`, its nodes moving
\* `off` places to the right.
Reparent(f, off, top) ==
  [i \in 1..Len(f) |->
     [f[i] EXCEPT !.parent = IF @ = 0 THEN top ELSE @ + off]]

\* The element e with the forest kids as its contents.
Under(e, kids) == <<e>> \o Reparent(kids, 1, 1)

\* Two forests side by side.
Beside(f, g) == f \o Reparent(g, Len(f), 0)

\* ---------------------------------------------------------------- bs4 queries

Indices(d) == [i \in 1..Len(d) |-> i]

\* Tag.contents of node e (of the soup itself when e = 0).
Contents(d, e) == SelectSeq(Indices(d), LAMBDA i : d[i].parent = e)

\* Node j lies somewhere below node e.
RECURSIVE IsDescendant(_, _, _)
IsDescendant(d, j, e) ==
  IF j = 0 THEN FALSE
  ELSE IF d[j].parent = e THEN TRUE
  ELSE IsDescendant(d, d[j].parent, e)

\* get_text that drops its separator argument.
GetText_NoSeparator(d, e, sep) ==
  LET strs == SelectSeq(Indices(d),
                 LAMBDA j : /\ d[j].kind = "text"
                            /\ IsDescendant(d, j, e)
                            /\ Strip(d[j].text) # <<>>)
  IN Join([k \in 1..Len(strs) |-> Strip(d[strs[k]].text)], <<>>)

\* Tag.get_text(strip=True, separator=sep): the NavigableStrings below e
\* (comments are left out), each stripped, the empty ones dropped, joined.
GetText(d, e, sep) ==
  LET strs == SelectSeq(Indices(d),
                 LAMBDA j : /\ d[j].kind = "text"
                            /\ IsDescendant(d, j, e)
                            /\ Strip(d[j].text) # <<>>)
  IN Join([k \in 1..Len(strs) |-> Strip(d[strs[k]].text)], sep)

\* Tag.string: <<>> is None, <<s>> the string s.  A tag with one child has
\* that child's string; a tag with no child or several has None.
RECURSIVE StringOf(_, _)
StringOf(d, e) ==
  LET c == Contents(d, e) IN
  IF Len(c) # 1 THEN <<>>
  ELSE IF d[c[1]].kind # "elem" THEN <<d[c[1]].text>>
  ELSE StringOf(d, c[1])

\* The last element of the result where the first is meant.
First_Last(found) == IF found = <<>> THEN <<>> ELSE <<found[Len(found)]>>

\* The first element of a find_all result, or None (<<>>): find().
First(found) == IF found = <<>> THEN <<>> ELSE <<found[1]>>

\* A Tag is true whatever its contents; None is false.
Truthy(t) == t # <<>>

\* find_all(name)
FindAllTag(d, name) ==
  SelectSeq(Indices(d), LAMBDA i : d[i].kind = "elem" /\ d[i].tag = name)

\* An id comparison that folds case.
FindAllById_AnyCase(d, names, ids) ==
  SelectSeq(Indices(d),
    LAMBDA i : /\ d[i].kind = "elem"
               /\ d[i].tag \in names
               /\ d[i].id # NoAttr
               /\ Lower(d[i].id[1]) \in ids)

\* find_all(names, id=ids): the id attribute is compared as a whole string.
FindAllById(d, names, ids) ==
  SelectSeq(Indices(d),
    LAMBDA i : /\ d[i].kind = "elem"
               /\ d[i].tag \in names
               /\ d[i].id # NoAttr
               /\ d[i].id[1] \in ids)

\* lambda t: '$' in t
HasDollar(t) == Contains(<<"$">>, t)

\* find_all(string=HasDollar): every NavigableString of the document, the
\* comments among them.
FindAllDollarStrings(d) ==
  SelectSeq(Indices(d), LAMBDA i : d[i].kind # "elem" /\ HasDollar(d[i].text))

\* The class test without .lower().
FooterClass_CaseSensitive(c) == c # <<>> /\ c[1] # <<>> /\ Contains(<<"f", "o", "o", "t", "e", "r">>, c[1])

\* lambda c: c and 'footer' in c.lower(), c a Maybe-string (None is <<>>).
FooterClass(c) == c # <<>> /\ c[1] # <<>> /\ Contains(<<"f", "o", "o", "t", "e", "r">>, Lower(c[1]))

\* How bs4 matches a function against the multi-valued class attribute: the
\* value is a list of tokens; the function is tried on each token and then
\* on the tokens joined by one space.  An absent attribute is tried as None.
ClassMatches(cls) ==
  IF cls = NoAttr THEN FooterClass(<<>>)
  ELSE LET toks == Split(cls[1]) IN
       \/ \E k \in 1..Len(toks) : FooterClass(<<toks[k]>>)
       \/ FooterClass(<<Join(toks, <<" ">>)>>)

\* find_all('div', class_=FooterClass)
FindAllFooterDivs(d) ==
  SelectSeq(Indices(d),
    LAMBDA i : d[i].kind = "elem" /\ d[i].tag = "div" /\ ClassMatches(d[i].cls))

\* find_all('a', href=True)
FindAllAnchorsWithHref(d) ==
  SelectSeq(Indices(d),
    LAMBDA i : d[i].kind = "elem" /\ d[i].tag = "a" /\ d[i].href # NoAttr)

Keywords ==
  <<<<"c", "h", "r", "o", "m", "e">>, <<"e", "x", "t", "e", "n", "s", "i", "o", "n">>, <<"p", "r", "i", "v", "a", "c", "y">>, <<"t", "e", "r", "m", "s">>, <<"a", "b", "o", "u", "t">>,
    <<"b", "l", "o", "g">>, <<"s", "u", "p", "p", "o", "r", "t">>>>

\* The keyword test on the href alone.
AnyKeyword_HrefOnly(href, text) ==
  \E k \in 1..Len(Keywords) : Contains(Keywords[k], Lower(href))

\* any(keyword in href.lower() or keyword in text.lower() for keyword in ...)
AnyKeyword(href, text) ==
  \E k \in 1..Len(Keywords) :
     Contains(Keywords[k], Lower(href)) \/ Contains(Keywords[k], Lower(text))

\* ---------------------------------------------------------------- documents

\* The documents the model reads are built from these pieces of markup.
TitleText == Under(Elem("title", NoAttr, NoAttr, NoAttr), <<Text(<<"A", "c", "m", "e">>)>>)
TitleEmpty == <<Elem("title", NoAttr, NoAttr, NoAttr)>>
Bold == Under(Elem("b", NoAttr, NoAttr, NoAttr), <<Text(<<"n", "o", "w">>)>>)
Features ==
  Under(Elem("section", Attr(<<"f", "e", "a", "t", "u", "r", "e", "s">>), NoAttr, NoAttr),
        Beside(<<Text(<<" ", "F", "a", "s", "t", " ">>)>>, Bold))
HowItWorks ==
  Under(Elem("div", Attr(<<"h", "o", "w", "-", "i", "t", "-", "w", "o", "r", "k", "s">>), NoAttr, NoAttr), <<Text(<<"H", "o", "w">>)>>)
Decoys ==
  Beside(Under(Elem("div", Attr(<<"F", "e", "a", "t", "u", "r", "e", "s">>), Attr(<<"f", "o", "o", "t">>), NoAttr), <<Text(<<"d", "1">>)>>),
  Beside(Under(Elem("p", Attr(<<"f", "e", "a", "t", "u", "r", "e", "s">>), Attr(<<"f", "o", "o", "t", "e", "r">>), NoAttr), <<Text(<<"d", "2">>)>>),
  Beside(Under(Elem("div", Attr(<<"m", "y", "-", "f", "e", "a", "t", "u", "r", "e", "s">>), Attr(<<"f", "o", "o", "t", " ", "e", "r">>), NoAttr), <<Text(<<"d", "3">>)>>),
  Beside(Under(Elem("div", NoAttr, NoAttr, NoAttr), <<Text(<<"d", "4">>)>>),
  Beside(Under(Elem("p", Attr(<<"p", "r", "i", "c", "i", "n", "g">>), NoAttr, NoAttr), <<Text(<<"d", "5">>)>>),
         Under(Elem("div", Attr(<<"S", "u", "c", "c", "e", "s", "s">>), Attr(<<>>), NoAttr), <<Text(<<"d", "6">>)>>))))))
Pricing ==
  Under(Elem("div", Attr(<<"p", "r", "i", "c", "i", "n", "g">>), NoAttr, NoAttr),
        Beside(<<Text(<<"$", "9">>)>>, Bold))
PricingEmpty == <<Elem("section", Attr(<<"p", "r", "i", "c", "i", "n", "g">>), NoAttr, NoAttr)>>
Prices ==
  Under(Elem("p", NoAttr, NoAttr, NoAttr),
        <<Text(<<" ", "$", "1", " ">>), Comment(<<"$", "c">>), Text(<<"$", "2">>)>>)
TopText == <<Text(<<"O", "n", "l", "y", " ", "$", "5">>)>>
Testimonials ==
  Beside(Under(Elem("div", Attr(<<"t", "e", "s", "t", "i", "m", "o", "n", "i", "a", "l", "s">>), NoAttr, NoAttr), <<Text(<<"T", "1">>)>>),
         Under(Elem("section", Attr(<<"s", "u", "c", "c", "e", "s", "s">>), NoAttr, NoAttr),
               Beside(<<Text(<<" ", "S", " ">>)>>, Bold)))
Footer ==
  Under(Elem("footer", NoAttr, NoAttr, NoAttr), Beside(<<Text(<<"F", "1">>)>>, Bold))
FooterEmpty == <<Elem("footer", NoAttr, Attr(<<"f", "o", "o", "t", "e", "r">>), NoAttr)>>
DivFooter ==
  Under(Elem("div", NoAttr, Attr(<<"s", "i", "t", "e", "-", "f", "o", "o", "t", "e", "r">>), NoAttr), <<Text(<<"C", "o", "n", "t", "a", "c", "t", " ", "u", "s">>)>>)
DivFooterMixed ==
  Under(Elem("div", NoAttr, Attr(<<"M", "a", "i", "n", " ", "F", "O", "O", "T", "E", "R", "-", "b", "a", "r">>), NoAttr),
        Beside(<<Text(<<"M">>)>>, Bold))
Links ==
  Beside(Under(Elem("a", NoAttr, NoAttr, Attr(<<"/", "p", "r", "i", "v", "a", "c", "y", "-", "p", "o", "l", "i", "c", "y">>)), <<Text(<<"P", "o", "l", "i", "c", "y">>)>>),
  Beside(Under(Elem("a", NoAttr, NoAttr, Attr(<<"/", "r", "a", "n", "d", "o", "m">>)), <<Text(<<"R", "a", "n", "d", "o", "m">>)>>),
  Beside(Under(Elem("a", NoAttr, NoAttr, NoAttr), <<Text(<<"A", "b", "o", "u", "t">>)>>),
  Beside(Under(Elem("a", NoAttr, NoAttr, Attr(<<>>)), <<Text(<<" ", "B", "l", "o", "g", " ">>)>>),
  Beside(Under(Elem("a", NoAttr, NoAttr, Attr(<<"/", "C", "h", "r", "o", "m", "e", "-", "E", "x", "t", "e", "n", "s", "i", "o", "n">>)), <<Text(<<"T", "e", "r", "m", "s">>)>>),
  Beside(<<Elem("a", NoAttr, NoAttr, Attr(<<>>))>>,
         Under(Elem("a", NoAttr, NoAttr, Attr(<<"/", "x">>)),
               Beside(<<Text(<<"s", "u", "p">>)>>,
                      Under(Elem("b", NoAttr, NoAttr, NoAttr), <<Text(<<"p", "o", "r", "t">>)>>)))))))))

Blocks ==
  {TitleText, TitleEmpty, Bold, Features, HowItWorks, Decoys, Pricing,
   PricingEmpty, Prices, TopText, Testimonials, Footer, FooterEmpty, DivFooter,
   DivFooterMixed, Links}

\* The largest number of pieces in one document.
MaxBlocks == 2

\* The first k pieces of bs side by side; piece j goes inside the first
\* element of piece j-1 instead when nest[j].
RECURSIVE DocOf(_, _, _)
DocOf(bs, nest, k) ==
  IF k = 0 THEN <<>>
  ELSE LET prev == DocOf(bs, nest, k - 1)
           top == IF k > 1 /\ nest[k] THEN Len(DocOf(bs, nest, k - 2)) + 1 ELSE 0
       IN prev \o Reparent(bs[k], Len(prev), top)

\* What the parser builds: text is never next to text (the parser joins
\* adjacent character data into one NavigableString) and only an element
\* has contents.
WellFormed(d) ==
  /\ \A j \in 1..Len(d) : d[j].parent # 0 => d[d[j].parent].kind = "elem"
  /\ \A e \in 0..Len(d) :
       LET c == Contents(d, e) IN
       \A k \in 1..(Len(c) - 1) : ~(d[c[k]].kind = "text" /\ d[c[k + 1]].kind = "text")

Docs ==
  {d \in UNION {{DocOf(bs, nest, n) : bs \in [1..n -> Blocks],
                                      nest \in [2..n -> BOOLEAN]} :
                n \in 0..MaxBlocks} : WellFormed(d)}

\* ---------------------------------------------------------------- the program

Filenames == {<<"p", ".", "h", "t", "m", "l">>}

VARIABLES
  pc,               \* the statement about to run
  argv,             \* sys.argv
  file,             \* the document the bytes of the named file stand for
  html,             \* <<>> until the file is read, then <<its content>>
  soup,             \* <<>> until the content is parsed, then <<the tree>>
  out,              \* the print calls so far: the line of the call and its text
  queried,          \* the lines whose soup query has run
  iter,             \* the list the running for-loop walks
  i,                \* the position of that loop in it
  pricing_section,  \* <<>> (None) or <<node>>
  footer            \* <<>> (None) or <<node>>

vars ==
  <<pc, argv, file, html, soup, out, queried, iter, i, pricing_section, footer>>

Init ==
  /\ pc = "main"
  /\ argv \in {<<<<"p", "a", "r", "s", "e", "_", "l", "a", "z", "y", "a", "p", "p", "l", "y", ".", "p", "y">>>>}
              \cup {<<<<"p", "a", "r", "s", "e", "_", "l", "a", "z", "y", "a", "p", "p", "l", "y", ".", "p", "y">>, f>> : f \in Filenames}
  /\ file \in Docs
  /\ html = <<>>
  /\ soup = <<>>
  /\ out = <<>>
  /\ queried = {}
  /\ iter = <<>>
  /\ i = 1
  /\ pricing_section = <<>>
  /\ footer = <<>>

\* print(text) at source line `line`.
Printed(line, text) == Append(out, [at |-> line, text |-> text])

\* if len(sys.argv) > 1: parse_file(sys.argv[1])
Main ==
  /\ pc = "main"
  /\ pc' = IF Len(argv) > 1 THEN "open" ELSE "exit"
  /\ UNCHANGED <<argv, file, html, soup, out, queried, iter, i, pricing_section, footer>>

\* The analysis header printed before the file is parsed.
OpenRead_PrintsHeader ==
  /\ pc = "open"
  /\ html' = <<file>>
  /\ out' = Printed(9, <<"-", "-", "-", " ", "A", "n", "a", "l", "y", "s", "i", "s", " ", "o", "f", " ">> \o argv[2] \o <<" ", "-", "-", "-">>)
  /\ pc' = "parse"
  /\ UNCHANGED <<argv, file, soup, queried, iter, i, pricing_section, footer>>

\* with open(filename, 'r', encoding='utf-8') as f: html = f.read()
OpenRead ==
  /\ pc = "open"
  /\ html' = <<file>>
  /\ pc' = "parse"
  /\ UNCHANGED <<argv, file, soup, out, queried, iter, i, pricing_section, footer>>

\* The same statement when the file cannot be opened or decoded: the
\* exception leaves parse_file and the program.
OpenReadRaises ==
  /\ pc = "open"
  /\ pc' = "raised"
  /\ UNCHANGED <<argv, file, html, soup, out, queried, iter, i, pricing_section, footer>>

\* soup = BeautifulSoup(html, 'html.parser')
Parse ==
  /\ pc = "parse"
  /\ soup' = <<html[1]>>
  /\ pc' = "analysis"
  /\ UNCHANGED <<argv, file, html, out, queried, iter, i, pricing_section, footer>>

\* The same statement when the parser raises.
ParseRaises ==
  /\ pc = "parse"
  /\ pc' = "raised"
  /\ UNCHANGED <<argv, file, html, soup, out, queried, iter, i, pricing_section, footer>>

\* print(f"--- Analysis of {filename} ---")
PrintAnalysis ==
  /\ pc = "analysis"
  /\ out' = Printed(9, <<"-", "-", "-", " ", "A", "n", "a", "l", "y", "s", "i", "s", " ", "o", "f", " ">> \o argv[2] \o <<" ", "-", "-", "-">>)
  /\ pc' = "title"
  /\ UNCHANGED <<argv, file, html, soup, queried, iter, i, pricing_section, footer>>

\* soup.title.string if soup.title else "No Title", as the f-string writes it.
TitleValue(d) ==
  LET t == First(FindAllTag(d, "title")) IN
  IF Truthy(t)
  THEN LET str == StringOf(d, t[1]) IN IF str = <<>> THEN NoneText ELSE str[1]
  ELSE <<"N", "o", " ", "T", "i", "t", "l", "e">>

\* title = ...; print(f"Title: {title}")
PrintTitle ==
  /\ pc = "title"
  /\ out' = Printed(13, <<"T", "i", "t", "l", "e", ":", " ">> \o TitleValue(soup[1]))
  /\ queried' = queried \cup {12}
  /\ pc' = "features"
  /\ UNCHANGED <<argv, file, html, soup, iter, i, pricing_section, footer>>

\* The blank line written after the header instead of before it.
FeaturesStart_BlankAfter ==
  /\ pc = "features"
  /\ out' = Printed(16, <<"[", "F", "e", "a", "t", "u", "r", "e", "s", " ", "/", " ", "H", "o", "w", " ", "i", "t", " ", "w", "o", "r", "k", "s", "]">> \o <<"\n">>)
  /\ iter' = FindAllById(soup[1], {"section", "div"}, {<<"f", "e", "a", "t", "u", "r", "e", "s">>, <<"h", "o", "w", "-", "i", "t", "-", "w", "o", "r", "k", "s">>})
  /\ queried' = queried \cup {17}
  /\ i' = 1
  /\ pc' = "features_loop"
  /\ UNCHANGED <<argv, file, html, soup, pricing_section, footer>>

\* print("\n[Features / How it works]"); the for statement's find_all
FeaturesStart ==
  /\ pc = "features"
  /\ out' = Printed(16, <<"\n">> \o <<"[", "F", "e", "a", "t", "u", "r", "e", "s", " ", "/", " ", "H", "o", "w", " ", "i", "t", " ", "w", "o", "r", "k", "s", "]">>)
  /\ iter' = FindAllById(soup[1], {"section", "div"}, {<<"f", "e", "a", "t", "u", "r", "e", "s">>, <<"h", "o", "w", "-", "i", "t", "-", "w", "o", "r", "k", "s">>})
  /\ queried' = queried \cup {17}
  /\ i' = 1
  /\ pc' = "features_loop"
  /\ UNCHANGED <<argv, file, html, soup, pricing_section, footer>>

\* print(section.get_text(strip=True, separator='\n'))
FeaturesLoop ==
  /\ pc = "features_loop"
  /\ i <= Len(iter)
  /\ out' = Printed(18, GetText(soup[1], iter[i], <<"\n">>))
  /\ i' = i + 1
  /\ UNCHANGED <<pc, argv, file, html, soup, queried, iter, pricing_section, footer>>

\* print("\n[Pricing]"); pricing_section = soup.find(['section', 'div'], id='pricing')
PricingStart ==
  /\ pc = "features_loop"
  /\ i > Len(iter)
  /\ out' = Printed(21, <<"\n">> \o <<"[", "P", "r", "i", "c", "i", "n", "g", "]">>)
  /\ pricing_section' = First(FindAllById(soup[1], {"section", "div"}, {<<"p", "r", "i", "c", "i", "n", "g">>}))
  /\ queried' = queried \cup {22}
  /\ pc' = "pricing_if"
  /\ UNCHANGED <<argv, file, html, soup, iter, i, footer>>

\* if pricing_section: print(pricing_section.get_text(strip=True, separator='\n'))
PricingPrimary ==
  /\ pc = "pricing_if"
  /\ Truthy(pricing_section)
  /\ out' = Printed(24, GetText(soup[1], pricing_section[1], <<"\n">>))
  /\ pc' = "testimonials"
  /\ UNCHANGED <<argv, file, html, soup, queried, iter, i, pricing_section, footer>>

\* else: prices = soup.find_all(string=lambda t: '$' in t)
PricingScan ==
  /\ pc = "pricing_if"
  /\ ~Truthy(pricing_section)
  /\ iter' = FindAllDollarStrings(soup[1])
  /\ queried' = queried \cup {27}
  /\ i' = 1
  /\ pc' = "prices_loop"
  /\ UNCHANGED <<argv, file, html, soup, out, pricing_section, footer>>

\* The matched string printed instead of its parent's text.
PricesLoop_PrintsString ==
  /\ pc = "prices_loop"
  /\ i <= Len(iter)
  /\ out' = Printed(31, Strip(soup[1][iter[i]].text))
  /\ i' = i + 1
  /\ UNCHANGED <<pc, argv, file, html, soup, queried, iter, pricing_section, footer>>

\* parent = p.parent; if parent: print(parent.get_text(strip=True))
\* The parent of a string of the tree is a Tag or the soup, both true.
PricesLoop ==
  /\ pc = "prices_loop"
  /\ i <= Len(iter)
  /\ out' = Printed(31, GetText(soup[1], soup[1][iter[i]].parent, <<>>))
  /\ i' = i + 1
  /\ UNCHANGED <<pc, argv, file, html, soup, queried, iter, pricing_section, footer>>

\* The Testimonials header carrying the Footer header's text.
TestimonialsStart_WrongHeader ==
  /\ \/ pc = "testimonials"
     \/ pc = "prices_loop" /\ i > Len(iter)
  /\ out' = Printed(34, <<"\n">> \o <<"[", "F", "o", "o", "t", "e", "r", "]">>)
  /\ iter' = FindAllById(soup[1], {"section", "div"}, {<<"t", "e", "s", "t", "i", "m", "o", "n", "i", "a", "l", "s">>, <<"s", "u", "c", "c", "e", "s", "s">>})
  /\ queried' = queried \cup {35}
  /\ i' = 1
  /\ pc' = "testimonials_loop"
  /\ UNCHANGED <<argv, file, html, soup, pricing_section, footer>>

\* print("\n[Testimonials]"); the for statement's find_all
TestimonialsStart ==
  /\ \/ pc = "testimonials"
     \/ pc = "prices_loop" /\ i > Len(iter)
  /\ out' = Printed(34, <<"\n">> \o <<"[", "T", "e", "s", "t", "i", "m", "o", "n", "i", "a", "l", "s", "]">>)
  /\ iter' = FindAllById(soup[1], {"section", "div"}, {<<"t", "e", "s", "t", "i", "m", "o", "n", "i", "a", "l", "s">>, <<"s", "u", "c", "c", "e", "s", "s">>})
  /\ queried' = queried \cup {35}
  /\ i' = 1
  /\ pc' = "testimonials_loop"
  /\ UNCHANGED <<argv, file, html, soup, pricing_section, footer>>

\* print(section.get_text(strip=True, separator='\n'))
TestimonialsLoop ==
  /\ pc = "testimonials_loop"
  /\ i <= Len(iter)
  /\ out' = Printed(36, GetText(soup[1], iter[i], <<"\n">>))
  /\ i' = i + 1
  /\ UNCHANGED <<pc, argv, file, html, soup, queried, iter, pricing_section, footer>>

\* print("\n[Footer]"); footer = soup.find('footer')
FooterStart ==
  /\ pc = "testimonials_loop"
  /\ i > Len(iter)
  /\ out' = Printed(39, <<"\n">> \o <<"[", "F", "o", "o", "t", "e", "r", "]">>)
  /\ footer' = First(FindAllTag(soup[1], "footer"))
  /\ queried' = queried \cup {40}
  /\ pc' = "footer_if"
  /\ UNCHANGED <<argv, file, html, soup, iter, i, pricing_section>>

\* if footer: print(footer.get_text(strip=True, separator='\n'))
FooterPrimary ==
  /\ pc = "footer_if"
  /\ Truthy(footer)
  /\ out' = Printed(42, GetText(soup[1], footer[1], <<"\n">>))
  /\ pc' = "links"
  /\ UNCHANGED <<argv, file, html, soup, queried, iter, i, pricing_section, footer>>

\* else: the for statement's find_all('div', class_=...)
FooterScan ==
  /\ pc = "footer_if"
  /\ ~Truthy(footer)
  /\ iter' = FindAllFooterDivs(soup[1])
  /\ queried' = queried \cup {45}
  /\ i' = 1
  /\ pc' = "footer_loop"
  /\ UNCHANGED <<argv, file, html, soup, out, pricing_section, footer>>

\* print(div.get_text(strip=True, separator='\n'))
FooterLoop ==
  /\ pc = "footer_loop"
  /\ i <= Len(iter)
  /\ out' = Printed(46, GetText(soup[1], iter[i], <<"\n">>))
  /\ i' = i + 1
  /\ UNCHANGED <<pc, argv, file, html, soup, queried, iter, pricing_section, footer>>

\* print("\n[Important Links]"); the for statement's find_all('a', href=True)
LinksStart ==
  /\ \/ pc = "links"
     \/ pc = "footer_loop" /\ i > Len(iter)
  /\ out' = Printed(49, <<"\n">> \o <<"[", "I", "m", "p", "o", "r", "t", "a", "n", "t", " ", "L", "i", "n", "k", "s", "]">>)
  /\ iter' = FindAllAnchorsWithHref(soup[1])
  /\ queried' = queried \cup {50}
  /\ i' = 1
  /\ pc' = "links_loop"
  /\ UNCHANGED <<argv, file, html, soup, pricing_section, footer>>

\* href = a['href']; text = a.get_text(strip=True)
\* if any(...): print(f"{text}: {href}")
LinksLoop ==
  /\ pc = "links_loop"
  /\ i <= Len(iter)
  /\ LET href == soup[1][iter[i]].href[1]
         text == GetText(soup[1], iter[i], <<>>)
     IN out' = IF AnyKeyword(href, text)
               THEN Printed(54, text \o <<":", " ">> \o href)
               ELSE out
  /\ i' = i + 1
  /\ UNCHANGED <<pc, argv, file, html, soup, queried, iter, pricing_section, footer>>

\* The for statement ends, parse_file returns and the program ends.
Return ==
  /\ pc = "links_loop"
  /\ i > Len(iter)
  /\ pc' = "exit"
  /\ UNCHANGED <<argv, file, html, soup, out, queried, iter, i, pricing_section, footer>>

Next ==
  \/ Main \/ OpenRead \/ OpenReadRaises \/ Parse \/ ParseRaises
  \/ PrintAnalysis \/ PrintTitle
  \/ FeaturesStart \/ FeaturesLoop
  \/ PricingStart \/ PricingPrimary \/ PricingScan \/ PricesLoop
  \/ TestimonialsStart \/ TestimonialsLoop
  \/ FooterStart \/ FooterPrimary \/ FooterScan \/ FooterLoop
  \/ LinksStart \/ LinksLoop \/ Return

Spec == Init /\ [][Next]_vars

\* The lines of a printed text: print writes the text and a newline, so a
\* text holding n newlines makes n + 1 lines.
RECURSIVE SplitLines(_)
SplitLines(text) ==
  LET nl == {k \in 1..Len(text) : text[k] = "\n"} IN
  IF nl = {} THEN <<text>>
  ELSE LET k == CHOOSE x \in nl : \A y \in nl : x <= y IN
       <<SubSeq(text, 1, k - 1)>> \o SplitLines(SubSeq(text, k + 1, Len(text)))

\* Standard output as lines, each with the line of the print call that wrote
\* it and its place among the lines of that call.
RECURSIVE StdoutLines(_)
StdoutLines(o) ==
  IF o = <<>> THEN <<>>
  ELSE LET r == o[Len(o)]
           ls == SplitLines(r.text)
       IN StdoutLines(SubSeq(o, 1, Len(o) - 1))
            \o [n \in 1..Len(ls) |-> [at |-> r.at, part |-> n, text |-> ls[n]]]

\* ---------------------------------------------------------------- properties

\* parse_file has run to its end on a parsed document.
Done == pc = "exit" /\ soup # <<>>

\* The texts printed by the print call at a source line, in output order.
TextsAt(line) ==
  LET sel == SelectSeq(out, LAMBDA r : r.at = line) IN
  [k \in 1..Len(sel) |-> sel[k].text]

\* The statements below are written against the document itself, without
\* the query operators of the program.

\* The elements and the document (0) that enclose node j.
RECURSIVE Ancestors(_, _)
Ancestors(d, j) ==
  IF d[j].parent = 0 THEN {0}
  ELSE {d[j].parent} \cup Ancestors(d, d[j].parent)

\* A set of node numbers in document order.
RECURSIVE Ascending(_)
Ascending(nodes) ==
  IF nodes = {} THEN <<>>
  ELSE LET m == CHOOSE x \in nodes : \A y \in nodes : x <= y IN
       <<m>> \o Ascending(nodes \ {m})

\* s without its leading and trailing whitespace.
RECURSIVE Trim(_)
Trim(s) ==
  IF s = <<>> THEN s
  ELSE IF s[1] \in Whitespace THEN Trim(Tail(s))
  ELSE IF s[Len(s)] \in Whitespace THEN Trim(SubSeq(s, 1, Len(s) - 1))
  ELSE s

\* The trimmed, non-empty text runs below node e, in document order.
RunsOf(d, e) ==
  LET ord == Ascending({j \in 1..Len(d) : /\ d[j].kind = "text"
                                          /\ e \in Ancestors(d, j)
                                          /\ Trim(d[j].text) # <<>>})
  IN [k \in 1..Len(ord) |-> Trim(d[ord[k]].text)]

RECURSIVE Glue(_, _)
Glue(runs, sep) ==
  IF Len(runs) = 0 THEN <<>>
  ELSE IF Len(runs) = 1 THEN runs[1]
  ELSE Glue(SubSeq(runs, 1, Len(runs) - 1), sep) \o sep \o runs[Len(runs)]

\* The text of element e, its runs separated by sep.
ElementText(d, e, sep) == Glue(RunsOf(d, e), sep)

\* The untrimmed text content of element e.
TextContent(d, e) ==
  LET ord == Ascending({j \in 1..Len(d) : d[j].kind = "text" /\ e \in Ancestors(d, j)})
  IN Glue([k \in 1..Len(ord) |-> d[ord[k]].text], <<>>)

ElementsNamed(d, tags) == {j \in 1..Len(d) : d[j].kind = "elem" /\ d[j].tag \in tags}

\* The <section> and <div> elements whose id is one of ids, in document order.
SectionsWithId(d, ids) ==
  Ascending({j \in ElementsNamed(d, {"section", "div"}) :
               \E v \in ids : d[j].id = <<v>>})

\* C1: the Title line is 'Title: ' followed by the text content of the first
\* <title> element when there is one, whatever its shape, and 'Title: No
\* Title' when there is none.
C1_TitleIsTextContent ==
  Done =>
    LET d == soup[1]
        titles == Ascending(ElementsNamed(d, {"title"}))
    IN TextsAt(13) =
         <<<<"T", "i", "t", "l", "e", ":", " ">> \o (IF titles = <<>> THEN <<"N", "o", " ", "T", "i", "t", "l", "e">>
                            ELSE TextContent(d, titles[1]))>>

\* C2: the Features blocks are the newline-joined trimmed texts of exactly the
\* <section>/<div> elements whose id is 'features' or 'how-it-works', one per
\* element in document order; likewise Testimonials for 'testimonials' and
\* 'success'.
C2_SectionsById ==
  Done =>
    LET d == soup[1]
        fs == SectionsWithId(d, {<<"f", "e", "a", "t", "u", "r", "e", "s">>, <<"h", "o", "w", "-", "i", "t", "-", "w", "o", "r", "k", "s">>})
        ts == SectionsWithId(d, {<<"t", "e", "s", "t", "i", "m", "o", "n", "i", "a", "l", "s">>, <<"s", "u", "c", "c", "e", "s", "s">>})
    IN /\ TextsAt(18) = [k \in 1..Len(fs) |-> ElementText(d, fs[k], <<"\n">>)]
       /\ TextsAt(36) = [k \in 1..Len(ts) |-> ElementText(d, ts[k], <<"\n">>)]

\* A features element inside another one, both printed, in a document that
\* also holds elements whose id differs in case or tag.
C2_Witness ==
  /\ Done
  /\ Len(TextsAt(18)) = 2
  /\ \E a, b \in 1..Len(soup[1]) :
       /\ soup[1][a].id = <<<<"h", "o", "w", "-", "i", "t", "-", "w", "o", "r", "k", "s">>>>
       /\ soup[1][b].id = <<<<"f", "e", "a", "t", "u", "r", "e", "s">>>>
       /\ a \in Ancestors(soup[1], b)

\* C3: with a <section>/<div id="pricing"> in the document exactly one block is
\* printed, the text of the first such element, and the '$' scan does not run;
\* the scan runs if and only if there is no such element.
C3_PricingExclusive ==
  LET ran == 27 \in queried IN
  /\ ran => soup # <<>> /\ SectionsWithId(soup[1], {<<"p", "r", "i", "c", "i", "n", "g">>}) = <<>>
  /\ Done =>
       LET d == soup[1]
           ps == SectionsWithId(d, {<<"p", "r", "i", "c", "i", "n", "g">>})
       IN /\ ran <=> ps = <<>>
          /\ ps # <<>> => /\ TextsAt(24) = <<ElementText(d, ps[1], <<"\n">>)>>
                          /\ TextsAt(31) = <<>>
          /\ ps = <<>> => TextsAt(24) = <<>>

\* The first pricing element is empty, a second one and a '$' text follow it:
\* one empty block is printed.
C3_Witness ==
  /\ Done
  /\ Len(SectionsWithId(soup[1], {<<"p", "r", "i", "c", "i", "n", "g">>})) = 2
  /\ Contents(soup[1], SectionsWithId(soup[1], {<<"p", "r", "i", "c", "i", "n", "g">>})[1]) = <<>>
  /\ FindAllDollarStrings(soup[1]) # <<>>
  /\ TextsAt(24) = <<<<>>>>

\* The string nodes of the given kinds that hold a '$', in document order.
DollarNodes(d, kinds) ==
  Ascending({j \in 1..Len(d) : /\ d[j].kind \in kinds
                               /\ \E n \in 1..Len(d[j].text) : d[j].text[n] = "$"})

\* The Pricing fallback prints, for each of the nodes, the trimmed text of
\* the node's parent, the runs of the parent joined by sep.
FallbackPrints(d, nodes, sep) ==
  TextsAt(31) = [k \in 1..Len(nodes) |-> ElementText(d, d[nodes[k]].parent, sep)]

\* C4 as stated: without a pricing element, one line per text node holding a
\* '$', each the trimmed text of that text node's parent.
C4_OnePerTextNode ==
  Done /\ SectionsWithId(soup[1], {<<"p", "r", "i", "c", "i", "n", "g">>}) = <<>> =>
    FallbackPrints(soup[1], DollarNodes(soup[1], {"text"}), <<>>)

\* C4 amended: without a pricing element, one line per string node holding a
\* '$', a text node or a comment, in document order and without
\* deduplication, each the trimmed text of that node's parent.
C4_OnePerStringNode ==
  Done /\ SectionsWithId(soup[1], {<<"p", "r", "i", "c", "i", "n", "g">>}) = <<>> =>
    FallbackPrints(soup[1], DollarNodes(soup[1], {"text", "comment"}), <<>>)

\* Two '$' text nodes share a parent, whose text is printed once for each.
C4_Witness ==
  /\ Done
  /\ SectionsWithId(soup[1], {<<"p", "r", "i", "c", "i", "n", "g">>}) = <<>>
  /\ \E a, b \in 1..Len(soup[1]) :
       /\ a < b
       /\ soup[1][a].kind = "text" /\ soup[1][b].kind = "text"
       /\ soup[1][a].parent = soup[1][b].parent
       /\ HasDollar(soup[1][a].text) /\ HasDollar(soup[1][b].text)
  /\ \E m, n \in 1..Len(TextsAt(31)) : m < n /\ TextsAt(31)[m] = TextsAt(31)[n]

\* The <div> elements whose raw class attribute holds 'footer' in any case.
FooterDivs(d) ==
  Ascending({j \in ElementsNamed(d, {"div"}) :
               d[j].cls # <<>> /\ Contains(<<"f", "o", "o", "t", "e", "r">>, Lower(d[j].cls[1]))})

\* C5: with a <footer> in the document exactly one block is printed, the text
\* of the first <footer>, and no <div>; without one, one block for every <div>
\* whose raw class attribute contains 'footer' case-insensitively, in
\* document order, nested ones included.
C5_Footer ==
  Done =>
    LET d == soup[1]
        fs == Ascending(ElementsNamed(d, {"footer"}))
        divs == FooterDivs(d)
    IN IF fs # <<>>
       THEN /\ TextsAt(42) = <<ElementText(d, fs[1], <<"\n">>)>>
            /\ TextsAt(46) = <<>>
       ELSE /\ TextsAt(42) = <<>>
            /\ TextsAt(46) = [k \in 1..Len(divs) |-> ElementText(d, divs[k], <<"\n">>)]

\* No <footer>; a div of class 'site-footer' inside a div of class
\* 'Main FOOTER-bar', both printed.
C5_Witness ==
  /\ Done
  /\ ElementsNamed(soup[1], {"footer"}) = {}
  /\ Len(TextsAt(46)) = 2
  /\ \E a, b \in 1..Len(soup[1]) :
       /\ soup[1][a].cls = <<<<"M", "a", "i", "n", " ", "F", "O", "O", "T", "E", "R", "-", "b", "a", "r">>>>
       /\ soup[1][b].cls = <<<<"s", "i", "t", "e", "-", "f", "o", "o", "t", "e", "r">>>>
       /\ a \in Ancestors(soup[1], b)

KeywordSet ==
  {<<"c", "h", "r", "o", "m", "e">>, <<"e", "x", "t", "e", "n", "s", "i", "o", "n">>, <<"p", "r", "i", "v", "a", "c", "y">>, <<"t", "e", "r", "m", "s">>, <<"a", "b", "o", "u", "t">>,
   <<"b", "l", "o", "g">>, <<"s", "u", "p", "p", "o", "r", "t">>}

\* The <a> elements with an href whose href or trimmed text holds a keyword.
ImportantAnchors(d) ==
  Ascending({j \in ElementsNamed(d, {"a"}) :
     /\ d[j].href # <<>>
     /\ \E kw \in KeywordSet :
          \/ Contains(kw, Lower(d[j].href[1]))
          \/ Contains(kw, Lower(ElementText(d, j, <<>>)))})

\* C6: an <a> is printed iff it has an href (empty counts) and its href or its
\* trimmed text contains a keyword case-insensitively; each kept anchor once,
\* as '<text>: <href>' with the href as written, in document order.
C6_ImportantLinks ==
  Done =>
    LET d == soup[1]
        as == ImportantAnchors(d)
    IN TextsAt(54) =
         [k \in 1..Len(as) |-> ElementText(d, as[k], <<>>) \o <<":", " ">> \o d[as[k]].href[1]]

\* An anchor with an empty href kept for its text, one matching two keywords
\* printed once, one without href and one without keyword left out.
C6_Witness ==
  /\ Done
  /\ \E k \in 1..Len(TextsAt(54)) : TextsAt(54)[k] = <<"B", "l", "o", "g", ":", " ">>
  /\ Len(SelectSeq(TextsAt(54), LAMBDA t : t = <<"T", "e", "r", "m", "s", ":", " ", "/", "C", "h", "r", "o", "m", "e", "-", "E", "x", "t", "e", "n", "s", "i", "o", "n">>)) = 1
  /\ \E j \in ElementsNamed(soup[1], {"a"}) : soup[1][j].href = <<>>
  /\ \E j \in ElementsNamed(soup[1], {"a"}) : soup[1][j].href = <<<<"/", "r", "a", "n", "d", "o", "m">>>>

\* The print calls of the headers and of the Title line, then for each
\* section the print calls of its results.
HeaderCalls == <<9, 13, 16, 21, 34, 39, 49>>
ResultCalls == [c \in {16, 21, 34, 39, 49} |->
                  CASE c = 16 -> {18}
                    [] c = 21 -> {24, 31}
                    [] c = 34 -> {36}
                    [] c = 39 -> {42, 46}
                    [] c = 49 -> {54}]

HeaderTexts == [c \in {9, 16, 21, 34, 39, 49} |->
                  CASE c = 9 -> <<"-", "-", "-", " ", "A", "n", "a", "l", "y", "s", "i", "s", " ", "o", "f", " ">> \o argv[2] \o <<" ", "-", "-", "-">>
                    [] c = 16 -> <<"[", "F", "e", "a", "t", "u", "r", "e", "s", " ", "/", " ", "H", "o", "w", " ", "i", "t", " ", "w", "o", "r", "k", "s", "]">>
                    [] c = 21 -> <<"[", "P", "r", "i", "c", "i", "n", "g", "]">>
                    [] c = 34 -> <<"[", "T", "e", "s", "t", "i", "m", "o", "n", "i", "a", "l", "s", "]">>
                    [] c = 39 -> <<"[", "F", "o", "o", "t", "e", "r", "]">>
                    [] c = 49 -> <<"[", "I", "m", "p", "o", "r", "t", "a", "n", "t", " ", "L", "i", "n", "k", "s", "]">>]

\* C7: after a successful parse the analysis header, the Title line and the
\* five section headers are each printed exactly once, in that order, and
\* every block of a pass lies after that pass's header and before the next.
C7_FixedOrder ==
  Done =>
    LET heads == SelectSeq(out, LAMBDA r : \E n \in 1..Len(HeaderCalls) : HeaderCalls[n] = r.at)
        Pos(c) == CHOOSE k \in 1..Len(out) : out[k].at = c
    IN /\ [n \in 1..Len(heads) |-> heads[n].at] = HeaderCalls
       /\ \A n \in 1..Len(heads) :
            IF heads[n].at = 13
            THEN SubSeq(heads[n].text, 1, 7) = <<"T", "i", "t", "l", "e", ":", " ">>
            ELSE SplitLines(heads[n].text)[Len(SplitLines(heads[n].text))]
                   = HeaderTexts[heads[n].at]
       /\ \A k \in 1..Len(out) : \A n \in 3..Len(HeaderCalls) :
            out[k].at \in ResultCalls[HeaderCalls[n]] =>
              /\ Pos(HeaderCalls[n]) < k
              /\ n < Len(HeaderCalls) => k < Pos(HeaderCalls[n + 1])

\* A run in which two passes print blocks.
C7_Witness ==
  /\ Done
  /\ TextsAt(18) # <<>>
  /\ TextsAt(31) # <<>>

\* Line k of standard output is a header: the analysis header or the header
\* of one of the five sections.
IsHeaderLine(ls, k) ==
  \/ ls[k].at = 9
  \/ ls[k].at \in {16, 21, 34, 39, 49} /\ ls[k].part = 2

\* The number of newlines in a text.
Newlines(t) == Cardinality({k \in 1..Len(t) : t[k] = "\n"})

\* The elements whose text the print call at a line prints, in the order of
\* the calls.
PrintedElements(d, c) ==
  LET ps == SectionsWithId(d, {<<"p", "r", "i", "c", "i", "n", "g">>})
      fs == Ascending(ElementsNamed(d, {"footer"}))
      ds == DollarNodes(d, {"text", "comment"})
  IN CASE c = 18 -> SectionsWithId(d, {<<"f", "e", "a", "t", "u", "r", "e", "s">>, <<"h", "o", "w", "-", "i", "t", "-", "w", "o", "r", "k", "s">>})
       [] c = 24 -> IF ps = <<>> THEN <<>> ELSE <<ps[1]>>
       [] c = 31 -> IF ps = <<>> THEN [k \in 1..Len(ds) |-> d[ds[k]].parent] ELSE <<>>
       [] c = 36 -> SectionsWithId(d, {<<"t", "e", "s", "t", "i", "m", "o", "n", "i", "a", "l", "s">>, <<"s", "u", "c", "c", "e", "s", "s">>})
       [] c = 42 -> IF fs = <<>> THEN <<>> ELSE <<fs[1]>>
       [] c = 46 -> IF fs = <<>> THEN FooterDivs(d) ELSE <<>>

\* Every printed block holds the trimmed runs of its element in order, with
\* nothing between consecutive runs in the calls of `glued` and exactly one
\* newline between them in the other calls.
RunsSeparated(glued) ==
  \A c \in {18, 24, 31, 36, 42, 46} :
    LET es == PrintedElements(soup[1], c)
        ts == TextsAt(c)
    IN /\ Len(ts) = Len(es)
       /\ \A k \in 1..Len(ts) :
            LET runs == RunsOf(soup[1], es[k]) IN
            IF c \in glued \/ runs = <<>>
            THEN Newlines(ts[k]) = 0 /\ ts[k] = Glue(runs, <<>>)
            ELSE Newlines(ts[k]) = Len(runs) - 1 /\ SplitLines(ts[k]) = runs

\* C8 as stated: every pass that prints an element's text (Features, Pricing
\* primary, Pricing fallback, Testimonials, Footer primary, Footer fallback)
\* puts a newline between consecutive trimmed runs; none concatenates them.
C8_NewlineEverywhere == Done => RunsSeparated({})

\* C8 amended: Features, Pricing primary, Testimonials, Footer primary and
\* Footer fallback put one newline between consecutive trimmed runs of the
\* element; the Pricing fallback puts nothing between them.
C8_NewlineButFallback == Done => RunsSeparated({31})

\* A Features block of two runs and a Pricing fallback block whose parent
\* has two runs.
C8_Witness ==
  /\ Done
  /\ \E k \in 1..Len(TextsAt(18)) : Newlines(TextsAt(18)[k]) = 1
  /\ \E k \in 1..Len(TextsAt(31)) :
       /\ Len(RunsOf(soup[1], PrintedElements(soup[1], 31)[k])) = 2
       /\ Newlines(TextsAt(31)[k]) = 0

\* C9 as stated: the line right after every header is empty.
C9_BlankAfterHeader ==
  Done =>
    LET ls == StdoutLines(out) IN
    \A k \in 1..Len(ls) :
      IsHeaderLine(ls, k) => k < Len(ls) /\ ls[k + 1].text = <<>>

\* C9 amended: each of the five section headers is preceded by an empty
\* line and followed at once by the first result line of its section, when
\* the section has results; the analysis header is the first line and the
\* Title line follows it at once.
C9_BlankBeforeHeader ==
  Done =>
    LET ls == StdoutLines(out) IN
    /\ ls[1].at = 9 /\ ls[1].text = HeaderTexts[9]
    /\ ls[2].at = 13
    /\ \A k \in 1..Len(ls) :
         ls[k].at \in {16, 21, 34, 39, 49} /\ ls[k].part = 2 =>
           /\ k > 1 /\ ls[k - 1].text = <<>> /\ ls[k - 1].at = ls[k].at
           /\ ls[k].text = HeaderTexts[ls[k].at]
           /\ (\E c \in ResultCalls[ls[k].at] : TextsAt(c) # <<>>) =>
                /\ k < Len(ls)
                /\ ls[k + 1].at \in ResultCalls[ls[k].at]
                /\ ls[k + 1].part = 1

\* A run whose Features section has results.
C9_Witness ==
  /\ Done
  /\ TextsAt(18) # <<>>
  /\ \E k \in 2..(Len(StdoutLines(out)) - 1) :
       /\ StdoutLines(out)[k].at = 16
       /\ StdoutLines(out)[k - 1].text = <<>>
       /\ StdoutLines(out)[k + 1].at = 18

\* C10: when reading or parsing fails nothing has been printed; every print
\* comes after the file was read and parsed; a run without a filename reads
\* nothing and prints nothing.
C10_NoOutputOnFailure ==
  /\ pc = "raised" => out = <<>> /\ queried = {}
  /\ out # <<>> => html # <<>> /\ soup # <<>>
  /\ Len(argv) <= 1 => out = <<>> /\ html = <<>> /\ soup = <<>> /\ pc \in {"main", "exit"}

\* The file was read and the parser raised.
C10_Witness == pc = "raised" /\ html # <<>> /\ out = <<>>

====
